---- MODULE Spec2Model ----
(***************************************************************************)
(* signpost-rs: the OsLog logger (lazy, one-shot native handle), its two   *)
(* emission primitives, the SignpostInterval scope guard, and the macro    *)
(* layer's literal-to-CStr conversion.                                     *)
(*                                                                         *)
(* The native facility (os_log_create, os_signpost_enabled,                *)
(* _os_signpost_emit_with_name_impl) is external: every call made to it is *)
(* appended to `trace`, os_log_create answers with any handle value and    *)
(* os_signpost_enabled answers with the current state of `tracing`, which  *)
(* the environment may flip at any time.                                   *)
(*                                                                         *)
(* Spec is the whole program.  The properties are checked under            *)
(* specifications of its parts, built from the same actions: SpecGate      *)
(* (concurrent handle resolution on static loggers), SpecInterval (events  *)
(* and intervals on one logger while tracing starts and stops), SpecEvent  *)
(* (calls on one logger with the reserved ids; SpecEventFair adds fair     *)
(* scheduling of the calls), SpecBuilder (new, with_category and first     *)
(* use) and SpecMacro (the expansion of the three macros on a literal).    *)
(***************************************************************************)
EXTENDS Integers, Sequences, FiniteSets, TLC

\* ------------------------------------------------------------------ bounds
NThreads == 2
NLoggers == 2
MaxCalls == 2
MaxHandle == 1
MaxWithCategory == 1
MaxLitLen == 3

\* ------------------------------------------------------- program constants
SIGNPOST_TYPE_EVENT == 0
SIGNPOST_TYPE_INTERVAL_BEGIN == 1
SIGNPOST_TYPE_INTERVAL_END == 2
\* AtomicUsize::new(0): the handle of a logger that was never resolved
UNSET_HANDLE == 0
\* [0u8; 64] in emit_event and begin_interval, [0u8; 4] in drop
CALL_BUF_LEN == 64
DROP_BUF_LEN == 4

Loggers == 1..NLoggers
\* os_log_t is usize; the native facility may answer with any value
Handles == 0..MaxHandle
Subsystems == {"mhallin.github.io", "com.yourapp"}
CATEGORY_POINTS_OF_INTEREST == "PointsOfInterest"
Categories == {CATEGORY_POINTS_OF_INTEREST, "Custom"}
\* id: u64. A u64 is written as its four 16-bit limbs, most significant first:
\* u64::MAX is beyond the integers of the model checker
U64(n) == <<0, 0, 0, n>>
U64_MAX == <<65535, 65535, 65535, 65535>>
\* the (id, name) pairs the callers pass, as in the tests
Args == {[id |-> U64(10), name |-> "Event"], [id |-> U64(11), name |-> "Interval"]}
\* the ids the documentation reserves, zero and u64::MAX, and an ordinary one
SentinelArgs ==
    {[id |-> U64(0), name |-> "Event"], [id |-> U64_MAX, name |-> "Event"],
     [id |-> U64(10), name |-> "Event"]}

\* Option<T> as a sequence of length 0 or 1
None == <<>>
Some(x) == <<x>>
IsSome(o) == Len(o) = 1
Get(o) == o[1]

VARIABLES
    loggers,    \* l -> OsLog {subsystem, category, handle, init} (exists: constructed)
    built,      \* ghost: l -> the constructor calls that made the logger, in order
    firstUse,   \* ghost: l -> Len(built[l]) when the first call on l started, 0 if none
    tracing,    \* native: whether a tracing session is active
    calls,      \* call id -> the frame of a call of emit_event, begin_interval or drop
    guards,     \* the SignpostInterval values that exist and are not being dropped
    trace,      \* native: every call made to the native facility, in order
    mpc, mMacro, mLit, mOut   \* the macro layer: one expansion of one literal

vars == <<loggers, built, firstUse, tracing, calls, guards, trace, mpc, mMacro, mLit, mOut>>
rtVars == <<loggers, built, firstUse, tracing, calls, guards, trace>>
macroVars == <<mpc, mMacro, mLit, mOut>>

\* ----------------------------------------------------------------- loggers
\* stores (ghost) counts the stores made to handle
NoLogger ==
    [exists |-> FALSE, subsystem |-> "", category |-> "",
     handle |-> UNSET_HANDLE, init |-> "INCOMPLETE", stores |-> 0]

\* faulty variant: a constructor that resolves the handle itself
OsLogNewEager(subsystem, category) ==
    [exists |-> TRUE, subsystem |-> subsystem, category |-> category,
     handle |-> MaxHandle, init |-> "COMPLETE", stores |-> 0]
\* OsLog::new: handle: AtomicUsize::new(0), init: Once::new()
OsLogNew(subsystem, category) ==
    [exists |-> TRUE, subsystem |-> subsystem, category |-> category,
     handle |-> UNSET_HANDLE, init |-> "INCOMPLETE", stores |-> 0]

\* ghost: one constructor call and its arguments
Built(fn, subsystem, category) ==
    [fn |-> fn, subsystem |-> subsystem, category |-> category]

\* faulty variant: with_category that returns self unchanged
WithCategoryDropsArg(self, category) == self
\* faulty variant: with_category that returns a logger with a fresh handle and Once
WithCategoryFresh(self, category) == OsLogNew(self.subsystem, category)
\* OsLog::with_category: self.category = category; self
WithCategoryValue(self, category) == [self EXCEPT !.category = category]

CallIds == 1..Len(calls)
Running(c) == calls[c].pc # "done"
\* every call runs on its caller's thread: a thread is free for a new call
\* while fewer than NThreads calls are running
FreeThread == Cardinality({c \in CallIds : Running(c)}) < NThreads
\* a logger is borrowed while a call on it runs or a guard refers to it
Borrowed(l) ==
    \/ \E c \in CallIds : calls[c].log = l /\ Running(c)
    \/ \E g \in guards : g.log = l

\* static LOGGER: OsLog = OsLog::new(subsystem, category)
New(l, subsystem, category) ==
    /\ ~loggers[l].exists
    /\ \A k \in Loggers : k < l => loggers[k].exists
    /\ loggers' = [loggers EXCEPT ![l] = OsLogNew(subsystem, category)]
    /\ built' = [built EXCEPT ![l] = <<Built("new", subsystem, category)>>]
    /\ UNCHANGED <<firstUse, tracing, calls, guards, trace, macroVars>>

\* logger = logger.with_category(category): takes the logger by value, so
\* nothing borrows it
WithCategory(l, category) ==
    /\ loggers[l].exists
    /\ ~Borrowed(l)
    /\ Len(built[l]) < 1 + MaxWithCategory
    /\ loggers' = [loggers EXCEPT ![l] = WithCategoryValue(loggers[l], category)]
    /\ built' = [built EXCEPT ![l] = Append(@, Built("with_category", "", category))]
    /\ UNCHANGED <<firstUse, tracing, calls, guards, trace, macroVars>>

\* ------------------------------------------------------------ native calls
CreateEvent(c, l, subsystem, category, h) ==
    [ev |-> "create", call |-> c, log |-> l, subsystem |-> subsystem,
     category |-> category, handle |-> h, result |-> TRUE,
     type |-> 0, id |-> U64(0), name |-> "", size |-> 0]
EnabledEvent(c, l, h, r) ==
    [ev |-> "enabled", call |-> c, log |-> l, subsystem |-> "",
     category |-> "", handle |-> h, result |-> r,
     type |-> 0, id |-> U64(0), name |-> "", size |-> 0]
EmitEvent(c, l, h, type, id, name, size) ==
    [ev |-> "emit", call |-> c, log |-> l, subsystem |-> "",
     category |-> "", handle |-> h, result |-> TRUE,
     type |-> type, id |-> id, name |-> name, size |-> size]

\* the environment starts or stops the tracing session
Toggle ==
    /\ tracing' = ~tracing
    /\ calls' = [c \in CallIds |->
                    IF calls[c].op = "begin_interval" /\ calls[c].open
                    THEN [calls[c] EXCEPT !.steady = FALSE] ELSE calls[c]]
    /\ UNCHANGED <<loggers, built, firstUse, guards, trace, macroVars>>

\* -------------------------------------------------------------------- calls
Frame(op, l, id, name, g, buf) ==
    [op |-> op, log |-> l, id |-> id, name |-> name, guard |-> g,
     pc |-> "call_once", created |-> None, handle |-> None, en |-> None,
     buf |-> buf,
     \* ghost, of a begin_interval call: its interval is not yet over, and
     \* tracing was `en0` at its start and has not changed since
     open |-> op = "begin_interval", steady |-> TRUE, en0 |-> tracing]

NoteUse(l) ==
    firstUse' = [firstUse EXCEPT ![l] = IF @ = 0 THEN Len(built[l]) ELSE @]

\* logger.emit_event(id, name) / logger.begin_interval(id, name) is called
StartCall(op, l, id, name) ==
    /\ FreeThread
    /\ Len(calls) < MaxCalls
    /\ loggers[l].exists
    /\ calls' = Append(calls, Frame(op, l, id, name, 0, 0))
    /\ NoteUse(l)
    /\ UNCHANGED <<loggers, built, tracing, guards, trace, macroVars>>

\* a guard goes out of scope: drop(&mut self) starts with let mut buf = [0u8; 4]
StartDrop(g) ==
    /\ FreeThread
    /\ Len(calls) < MaxCalls
    /\ guards' = guards \ {g}
    /\ calls' = Append(calls, Frame("drop", g.log, g.id, g.name, g.gid, DROP_BUF_LEN))
    /\ NoteUse(g.log)
    /\ UNCHANGED <<loggers, built, tracing, trace, macroVars>>

\* ---------------------------------------------------------------- OsLog::get
\* Once::call_once: the closure runs only for the caller that finds the Once
\* untouched; a caller that finds it complete goes on; one that finds it
\* running waits
\* faulty variant: the closure also runs for a caller that finds it running
OnceFreeRacy(self) == self.init # "COMPLETE"
\* faulty variant: the closure may run on every call
OnceFreeEveryCall(self) == TRUE
\* faulty variant: the closure runs while the handle has the unset value
OnceFreeByHandle(self) == self.init # "RUNNING" /\ self.handle = UNSET_HANDLE
OnceFree(self) == self.init = "INCOMPLETE"
\* faulty variant: a caller that finds the closure running does not wait
OnceDoneRacy(self) == self.init # "INCOMPLETE"
\* faulty variant: a caller that did not run the closure is never let through
OnceDoneNever(self) == FALSE
OnceDone(self) == self.init = "COMPLETE"

At(c, pc) == c \in CallIds /\ calls[c].pc = pc
\* faulty variant: one handle and Once for all the loggers of one subsystem
\* and category, those of the first such logger
SelfByName(c) ==
    LET same == {k \in Loggers : /\ loggers[k].subsystem = loggers[calls[c].log].subsystem
                                 /\ loggers[k].category = loggers[calls[c].log].category}
    IN loggers[CHOOSE k \in same : \A j \in same : k <= j]
\* &self of the call: the logger it was made on
Self(c) == loggers[calls[c].log]

CallOnceRun(c) ==
    /\ At(c, "call_once")
    /\ OnceFree(Self(c))
    /\ loggers' = [loggers EXCEPT ![calls[c].log].init = "RUNNING"]
    /\ calls' = [calls EXCEPT ![c].pc = "create"]
    /\ UNCHANGED <<built, firstUse, tracing, guards, trace, macroVars>>

CallOnceSkip(c) ==
    /\ At(c, "call_once")
    /\ OnceDone(Self(c))
    /\ calls' = [calls EXCEPT ![c].pc = "load"]
    /\ UNCHANGED <<loggers, built, firstUse, tracing, guards, trace, macroVars>>

\* the arguments of os_log_create: self.subsystem.as_ptr(), self.category.as_ptr()
CreateArgs(self) == [subsystem |-> self.subsystem, category |-> self.category]

\* sys::os_log_create(..) inside the closure; the facility answers with any handle
OsLogCreate(c) ==
    /\ At(c, "create")
    /\ \E h \in Handles :
         /\ calls' = [calls EXCEPT ![c].pc = "store", ![c].created = Some(h)]
         /\ trace' = Append(trace,
                CreateEvent(c, calls[c].log, CreateArgs(Self(c)).subsystem,
                            CreateArgs(Self(c)).category, h))
    /\ UNCHANGED <<loggers, built, firstUse, tracing, guards, macroVars>>

\* self.handle.store(.., Ordering::SeqCst)
StoreHandle(c) ==
    /\ At(c, "store")
    /\ loggers' = [loggers EXCEPT ![calls[c].log].handle = Get(calls[c].created),
                                  ![calls[c].log].stores = @ + 1]
    /\ calls' = [calls EXCEPT ![c].pc = "complete"]
    /\ UNCHANGED <<built, firstUse, tracing, guards, trace, macroVars>>

\* the closure returns and call_once marks the Once complete
OnceComplete(c) ==
    /\ At(c, "complete")
    /\ loggers' = [loggers EXCEPT ![calls[c].log].init = "COMPLETE"]
    /\ calls' = [calls EXCEPT ![c].pc = "load"]
    /\ UNCHANGED <<built, firstUse, tracing, guards, trace, macroVars>>

\* self.handle.load(Ordering::SeqCst), the value get returns; emit_event and
\* begin_interval then create their scratch buffer, let mut buf = [0u8; 64]
LoadHandle(c) ==
    /\ At(c, "load")
    /\ calls' = [calls EXCEPT ![c].pc = "signpost",
                              ![c].handle = Some(Self(c).handle),
                              ![c].buf = IF calls[c].op = "drop" THEN @ ELSE CALL_BUF_LEN]
    /\ UNCHANGED <<loggers, built, firstUse, tracing, guards, trace, macroVars>>

\* ------------------------------------------------- enabled check and emission
\* faulty variants: every call passes INTERVAL_END; begin and end are swapped
SignpostTypeAllEnd(op) == SIGNPOST_TYPE_INTERVAL_END
SignpostTypeSwapped(op) ==
    CASE op = "emit_event" -> SIGNPOST_TYPE_EVENT
      [] op = "begin_interval" -> SIGNPOST_TYPE_INTERVAL_END
      [] op = "drop" -> SIGNPOST_TYPE_INTERVAL_BEGIN
\* the signpost type each operation passes to the emission primitive
SignpostType(op) ==
    CASE op = "emit_event" -> SIGNPOST_TYPE_EVENT
      [] op = "begin_interval" -> SIGNPOST_TYPE_INTERVAL_BEGIN
      [] op = "drop" -> SIGNPOST_TYPE_INTERVAL_END

\* faulty variant: a guard that stores another id than the one passed in
NewGuardOtherId(c) ==
    [gid |-> c, log |-> calls[c].log, id |-> [calls[c].id EXCEPT ![4] = @ + 1], name |-> calls[c].name]
\* SignpostInterval { log: self, id, name }
NewGuard(c) == [gid |-> c, log |-> calls[c].log, id |-> calls[c].id, name |-> calls[c].name]

\* faulty variant: begin_interval hands out a guard only when its check answered true
ReturnedGuardWhenEmitted(c, cs) ==
    /\ guards' = IF calls[c].op = "begin_interval" /\ Get(cs[c].en)
                 THEN guards \cup {[gid |-> c, log |-> calls[c].log,
                                    id |-> calls[c].id, name |-> calls[c].name]}
                 ELSE guards
    /\ calls' = IF calls[c].op = "drop"
                THEN [cs EXCEPT ![c].pc = "done", ![calls[c].guard].open = FALSE]
                ELSE [cs EXCEPT ![c].pc = "done"]
\* the call returns: begin_interval hands out its guard, drop ends its interval
Returned(c, cs) ==
    /\ guards' = IF calls[c].op = "begin_interval" THEN guards \cup {NewGuard(c)} ELSE guards
    /\ calls' = IF calls[c].op = "drop"
                THEN [cs EXCEPT ![c].pc = "done", ![calls[c].guard].open = FALSE]
                ELSE [cs EXCEPT ![c].pc = "done"]

\* os_signpost_enabled answers with the state of the tracing session
OsSignpostEnabled(h) == tracing

\* if enabled { _os_signpost_emit_with_name_impl(.., log, type, id, name, .., buf, len) }:
\* the native emissions call c makes with handle h after the check answered en
\* (faulty variants: emission without regard to the check; on the wrong answer;
\* a drop that emits when its begin_interval did; no emission for a reserved id;
\* emission with the unset handle)
EmissionUnchecked(c, h, en) ==
    <<EmitEvent(c, calls[c].log, h, SignpostType(calls[c].op),
                calls[c].id, calls[c].name, calls[c].buf)>>
EmissionInverted(c, h, en) ==
    IF ~en
    THEN <<EmitEvent(c, calls[c].log, h, SignpostType(calls[c].op),
                     calls[c].id, calls[c].name, calls[c].buf)>>
    ELSE <<>>
EmissionRejectsSentinels(c, h, en) ==
    IF en /\ calls[c].id \notin {U64(0), U64_MAX}
    THEN <<EmitEvent(c, calls[c].log, h, SignpostType(calls[c].op),
                     calls[c].id, calls[c].name, calls[c].buf)>>
    ELSE <<>>
EmissionUnsetHandle(c, h, en) ==
    IF en
    THEN <<EmitEvent(c, calls[c].log, UNSET_HANDLE, SignpostType(calls[c].op),
                     calls[c].id, calls[c].name, calls[c].buf)>>
    ELSE <<>>
EmissionAsBegun(c, h, en) ==
    IF (IF calls[c].op = "drop" THEN Get(calls[calls[c].guard].en) ELSE en)
    THEN <<EmitEvent(c, calls[c].log, h, SignpostType(calls[c].op),
                     calls[c].id, calls[c].name, calls[c].buf)>>
    ELSE <<>>
Emission(c, h, en) ==
    IF en
    THEN <<EmitEvent(c, calls[c].log, h, SignpostType(calls[c].op),
                     calls[c].id, calls[c].name, calls[c].buf)>>
    ELSE <<>>

\* if sys::os_signpost_enabled(log) {
\*     sys::_os_signpost_emit_with_name_impl(dso, log, type, id, name, null, buf, len)
\* }
\* and the call returns. The two native calls are one step: the emission reads
\* nothing another thread or the environment can change after the check.
Signpost(c) ==
    /\ At(c, "signpost")
    /\ LET h == Get(calls[c].handle)
           en == OsSignpostEnabled(h)
       IN /\ trace' = Append(trace, EnabledEvent(c, calls[c].log, h, en))
                          \o Emission(c, h, en)
          /\ Returned(c, [calls EXCEPT ![c].en = Some(en)])
    /\ UNCHANGED <<loggers, built, firstUse, tracing, macroVars>>

\* the next step of call c, whichever it is
Step(c) ==
    \/ CallOnceRun(c)
    \/ CallOnceSkip(c)
    \/ OsLogCreate(c)
    \/ StoreHandle(c)
    \/ OnceComplete(c)
    \/ LoadHandle(c)
    \/ Signpost(c)

\* -------------------------------------------------------------- macro layer
\* the characters of the literals: NUL, 'A', U+00E9 and U+20AC
Chars == {0, 65, 233, 8364}
Literals == UNION {[1..n -> Chars] : n \in 0..MaxLitLen}
Macros == {"const_poi_logger", "emit_event", "begin_interval"}

\* faulty variant: no NUL is ever found
ContainsNever(s, ch) == FALSE
\* str::contains(char)
Contains(s, ch) == \E i \in 1..Len(s) : s[i] = ch

\* the UTF-8 encoding of one char, as String stores it
Utf8(ch) ==
    IF ch < 128 THEN <<ch>>
    ELSE IF ch < 2048 THEN <<192 + (ch \div 64), 128 + (ch % 64)>>
    ELSE <<224 + (ch \div 4096), 128 + ((ch \div 64) % 64), 128 + (ch % 64)>>

\* String::as_bytes
RECURSIVE AsBytes(_)
AsBytes(s) == IF s = <<>> THEN <<>> ELSE Utf8(Head(s)) \o AsBytes(Tail(s))

\* str_lit_to_static_cstr: Err(input) for a literal with a NUL character,
\* else the byte string of the literal with '\0' pushed
StrLitToStaticCstr(input) ==
    IF Contains(input, 0)
    THEN [ok |-> FALSE, bytes |-> <<>>, lit |-> input]
    ELSE [ok |-> TRUE, bytes |-> AsBytes(Append(input, 0)), lit |-> <<>>]

\* what a macro expands to: a compile error, or a call with the name's bytes
CompileError(msg) == [error |-> msg, call |-> "", name |-> <<>>]
Expansion(call, bytes) == [error |-> "", call |-> call, name |-> bytes]

Expand(call, msg) ==
    LET r == StrLitToStaticCstr(mLit)
    IN /\ mpc = "input"
       /\ mpc' = "expanded"
       /\ mOut' = Some(IF r.ok THEN Expansion(call, r.bytes) ELSE CompileError(msg))
       /\ UNCHANGED <<mMacro, mLit, rtVars>>

\* const_poi_logger!(name)
ConstPoiLoggerMacro ==
    /\ mMacro = "const_poi_logger"
    /\ Expand("signpost::OsLog::new", "The logger name can not contain NULL bytes")

\* emit_event!(log, id, name)
EmitEventMacro ==
    /\ mMacro = "emit_event"
    /\ Expand("emit_event", "The event name can not contain NULL bytes")

\* begin_interval!(log, id, name)
BeginIntervalMacro ==
    /\ mMacro = "begin_interval"
    /\ Expand("begin_interval", "The event name can not contain NULL bytes")

\* ------------------------------------------------------------ trace queries
TraceIdx == 1..Len(trace)
\* the os_log_create calls made for logger l
CreatesOf(l) == {i \in TraceIdx : trace[i].ev = "create" /\ trace[i].log = l}
\* the native emissions of signpost type ty made by call c
EmitsOf(c, ty) ==
    {i \in TraceIdx : trace[i].ev = "emit" /\ trace[i].call = c /\ trace[i].type = ty}
\* the enablement checks made by call c
ChecksOf(c) == {i \in TraceIdx : trace[i].ev = "enabled" /\ trace[i].call = c}
\* the calls that got their handle from get
Resolved(l) == {c \in CallIds : calls[c].log = l /\ IsSome(calls[c].handle)}
\* the drops of the guard that begin_interval call b returned
DropsOf(b) == {d \in CallIds : calls[d].op = "drop" /\ calls[d].guard = b}
BeginCalls == {b \in CallIds : calls[b].op = "begin_interval"}
DoneDrops == {d \in CallIds : calls[d].op = "drop" /\ calls[d].pc = "done"}

\* ------------------------------------------------------------------ claims
\* C1: on every logger, however its first calls interleave, os_log_create is
\* executed at most once, and exactly once as soon as any call has its handle;
\* the cached handle is stored at most once and then holds the created value;
\* every call that has its handle has that same created value.
C1_CreatedExactlyOnce ==
    \A l \in Loggers :
        /\ Cardinality(CreatesOf(l)) <= 1
        /\ loggers[l].stores <= 1
        /\ loggers[l].stores = 0 => loggers[l].handle = UNSET_HANDLE
        /\ loggers[l].stores = 1 =>
              \E i \in CreatesOf(l) : loggers[l].handle = trace[i].handle
        /\ \A c \in Resolved(l) :
              /\ loggers[l].stores = 1
              /\ \E i \in CreatesOf(l) : Get(calls[c].handle) = trace[i].handle

\* two calls on one logger have their handles, and the one that ran the creation
\* started after the other: both were first calls, in flight together
C1_Witness ==
    \E c1, c2 \in CallIds :
        /\ c2 < c1
        /\ calls[c1].log = calls[c2].log
        /\ IsSome(calls[c1].handle) /\ IsSome(calls[c2].handle)
        /\ \E i \in CreatesOf(calls[c1].log) : trace[i].call = c1

\* C2: get returns only after the one os_log_create call of the logger has
\* completed and its result is stored: a call that has returned from call_once
\* finds the Once complete and the handle stored, a call that finds the
\* creation running cannot proceed, and every enablement check and emission
\* is made with the created handle, after the creation.
C2_NoHalfInitializedHandle ==
    /\ \A c \in CallIds :
          /\ (calls[c].pc = "load" \/ IsSome(calls[c].handle)) =>
                /\ loggers[calls[c].log].init = "COMPLETE"
                /\ loggers[calls[c].log].stores = 1
          /\ (calls[c].pc = "call_once" /\ loggers[calls[c].log].init = "RUNNING") =>
                ~ENABLED (CallOnceRun(c) \/ CallOnceSkip(c))
    /\ \A i \in TraceIdx :
          trace[i].ev \in {"enabled", "emit"} =>
              \E j \in CreatesOf(trace[i].log) :
                  j < i /\ trace[j].handle = trace[i].handle

\* a call waits at call_once while another call is inside the creation
C2_Witness ==
    \E c1, c2 \in CallIds :
        /\ c1 # c2
        /\ calls[c1].log = calls[c2].log
        /\ calls[c1].pc \in {"create", "store"}
        /\ calls[c2].pc = "call_once"

\* the interval-end markers emitted for the guard of begin_interval call b
EndsOf(b) ==
    {i \in TraceIdx : /\ trace[i].ev = "emit"
                      /\ trace[i].type = SIGNPOST_TYPE_INTERVAL_END
                      /\ trace[i].call \in DropsOf(b)}
\* the interval-begin markers emitted by begin_interval call b
BeginsOf(b) == EmitsOf(b, SIGNPOST_TYPE_INTERVAL_BEGIN)
SamePair(i, b) == trace[i].id = calls[b].id /\ trace[i].name = calls[b].name

\* C3 as stated: once the guard of a begin_interval(id, name) call is dropped,
\* exactly one interval-end marker with that (id, name) has been emitted,
\* whatever the tracing session did in between.
C3_Original ==
    \A d \in DoneDrops :
        Cardinality({i \in EndsOf(calls[d].guard) : SamePair(i, calls[d].guard)}) = 1

\* C3 amended: interval-end markers are emitted only by drops of guards; for the
\* guard of a begin_interval(id, name) call at most one is ever emitted, it
\* carries that (id, name), and once the guard is dropped there is exactly one
\* when the enablement check made by the drop answered true and none when it
\* answered false.
C3_EndAtDropWhenEnabled ==
    /\ \A i \in TraceIdx :
          (trace[i].ev = "emit" /\ trace[i].type = SIGNPOST_TYPE_INTERVAL_END) =>
              \E b \in BeginCalls : i \in EndsOf(b)
    /\ \A b \in BeginCalls :
          /\ Cardinality(EndsOf(b)) <= 1
          /\ \A i \in EndsOf(b) : SamePair(i, b)
          /\ \A d \in DropsOf(b) :
                calls[d].pc = "done" =>
                    Cardinality(EndsOf(b)) = (IF Get(calls[d].en) THEN 1 ELSE 0)

\* a guard made while tracing was off is dropped while tracing is on, and its
\* interval-end marker is emitted
C3_Witness ==
    \E d \in DoneDrops :
        /\ Get(calls[d].en)
        /\ ~Get(calls[calls[d].guard].en)
        /\ Cardinality(EndsOf(calls[d].guard)) = 1

\* C4 as stated: for a dropped guard, an interval-end marker was emitted if and
\* only if its begin_interval call emitted an interval-begin marker.
C4_Original ==
    \A d \in DoneDrops :
        (EndsOf(calls[d].guard) # {}) <=> (BeginsOf(calls[d].guard) # {})

\* C4 amended: for a dropped guard, the interval-begin marker was emitted exactly
\* when the check of begin_interval answered true and the interval-end marker
\* exactly when the check of the drop answered true, both with the id and name
\* of the guard; so end and begin go together exactly when the two checks agree.
C4_EndIffBeginWhenChecksAgree ==
    \A d \in DoneDrops :
        LET b == calls[d].guard
            begun == BeginsOf(b) # {}
            ended == EndsOf(b) # {}
        IN /\ begun <=> Get(calls[b].en)
           /\ ended <=> Get(calls[d].en)
           /\ (Get(calls[b].en) = Get(calls[d].en)) => (ended <=> begun)
           /\ (Get(calls[b].en) # Get(calls[d].en)) => (ended <=> ~begun)
           /\ \A i \in BeginsOf(b) \cup EndsOf(b) : SamePair(i, b)

\* a guard is dropped whose two checks both answered true although the tracing
\* session changed in between
C4_Witness ==
    \E d \in DoneDrops :
        /\ Get(calls[d].en) /\ Get(calls[calls[d].guard].en)
        /\ ~calls[calls[d].guard].steady
        /\ BeginsOf(calls[d].guard) # {} /\ EndsOf(calls[d].guard) # {}

\* C5: a guard is dropped at most once and its drop makes one enablement check
\* and at most one emission, so at most one interval-end marker is emitted for
\* a guard; and the interval-end markers emitted on a logger never outnumber
\* the guards dropped on it.
C5_EndAtMostOncePerGuard ==
    /\ \A b \in BeginCalls :
          /\ Cardinality(DropsOf(b)) <= 1
          /\ Cardinality(EndsOf(b)) <= 1
    /\ \A d \in DoneDrops :
          /\ Cardinality(ChecksOf(d)) = 1
          /\ Cardinality({i \in TraceIdx : trace[i].ev = "emit" /\ trace[i].call = d}) <= 1
    /\ \A l \in Loggers :
          Cardinality({i \in TraceIdx : /\ trace[i].ev = "emit"
                                        /\ trace[i].log = l
                                        /\ trace[i].type = SIGNPOST_TYPE_INTERVAL_END})
              <= Cardinality({d \in DoneDrops : calls[d].log = l})

\* a guard was dropped and its one interval-end marker emitted
C5_Witness ==
    \E d \in DoneDrops :
        /\ Cardinality(EndsOf(calls[d].guard)) = 1
        /\ calls[d].guard \notin {g.gid : g \in guards}

\* the native emissions made by call c, of any type
AllEmitsOf(c) == {i \in TraceIdx : trace[i].ev = "emit" /\ trace[i].call = c}

\* C6: begin_interval(id, name) followed by the drop of its guard emits, when
\* tracing is enabled from the call to the end of the drop, exactly two
\* markers, interval-begin(id, name) and then interval-end(id, name); when
\* tracing is disabled all that time, none. Both calls return.
C6_BeginThenEnd ==
    \A d \in DoneDrops :
        LET b == calls[d].guard
        IN calls[b].steady =>
              /\ calls[b].pc = "done"
              /\ IF calls[b].en0
                 THEN /\ Cardinality(AllEmitsOf(b)) = 1
                      /\ Cardinality(AllEmitsOf(d)) = 1
                      /\ \A i \in AllEmitsOf(b), j \in AllEmitsOf(d) :
                            /\ i < j
                            /\ trace[i].type = SIGNPOST_TYPE_INTERVAL_BEGIN
                            /\ trace[j].type = SIGNPOST_TYPE_INTERVAL_END
                            /\ SamePair(i, b) /\ SamePair(j, b)
                 ELSE AllEmitsOf(b) = {} /\ AllEmitsOf(d) = {}

\* an interval began and ended while tracing stayed enabled
C6_Witness ==
    \E d \in DoneDrops :
        /\ calls[calls[d].guard].steady
        /\ calls[calls[d].guard].en0
        /\ AllEmitsOf(d) # {}

\* C7: an emit_event call whose enablement check answered false has returned,
\* having made that one check and no emission.
C7_DisabledEventEmitsNothing ==
    \A c \in CallIds :
        (calls[c].op = "emit_event" /\ calls[c].en = Some(FALSE)) =>
            /\ calls[c].pc = "done"
            /\ AllEmitsOf(c) = {}
            /\ Cardinality(ChecksOf(c)) = 1
            /\ \A i \in ChecksOf(c) : ~trace[i].result

\* an emit_event call met a disabled session after an earlier call had emitted
C7_Witness ==
    \E c \in CallIds :
        /\ calls[c].op = "emit_event"
        /\ calls[c].en = Some(FALSE)
        /\ \E i \in TraceIdx : trace[i].ev = "emit" /\ trace[i].call < c

\* C8: on a logger built as new(subsystem, catA).with_category(catB) and then
\* used, os_log_create is called at most once, with the subsystem given to new
\* and the category catB, and not with catA when catA differs from catB.
C8_CreateUsesNewCategory ==
    \A l \in Loggers :
        firstUse[l] = 2 =>
            /\ Cardinality(CreatesOf(l)) <= 1
            /\ \A i \in CreatesOf(l) :
                  /\ trace[i].subsystem = built[l][1].subsystem
                  /\ trace[i].category = built[l][2].category
                  /\ built[l][1].category # built[l][2].category =>
                        trace[i].category # built[l][1].category

\* os_log_create was called for a logger whose category with_category changed
C8_Witness ==
    \E l \in Loggers :
        /\ firstUse[l] = 2
        /\ built[l][2].fn = "with_category"
        /\ built[l][1].category # built[l][2].category
        /\ CreatesOf(l) # {}
        /\ loggers[l].init = "COMPLETE"

\* C9: when a macro has expanded a literal, the expansion is a compile error
\* and no call if the literal has a NUL character; otherwise it is a call whose
\* name is the bytes of the literal followed by one NUL byte, with no NUL byte
\* before the last position.
C9_NulRejectedElseTerminated ==
    mpc = "expanded" =>
        LET out == Get(mOut)
            n == Len(out.name)
        IN IF \E i \in 1..Len(mLit) : mLit[i] = 0
           THEN out.error # "" /\ out.call = "" /\ out.name = <<>>
           ELSE /\ out.error = "" /\ out.call # ""
                /\ out.name = AsBytes(mLit) \o <<0>>
                /\ n >= 1 /\ out.name[n] = 0
                /\ \A i \in 1..(n - 1) : out.name[i] # 0

\* a literal of the greatest length with a multi-byte character was expanded to a call
C9_Witness ==
    /\ mpc = "expanded"
    /\ Get(mOut).call # ""
    /\ Len(mLit) = MaxLitLen
    /\ Len(Get(mOut).name) > Len(mLit) + 1

\* C10: a logger that was constructed and never used has its handle unset, its
\* Once untouched and no os_log_create call; every os_log_create call for a
\* logger is made by an emit_event or begin_interval call on that logger.
C10_ConstructionIsLazy ==
    \A l \in Loggers :
        /\ (loggers[l].exists /\ firstUse[l] = 0) =>
              /\ loggers[l].handle = UNSET_HANDLE
              /\ loggers[l].init = "INCOMPLETE"
              /\ loggers[l].stores = 0
              /\ CreatesOf(l) = {}
        /\ \A i \in CreatesOf(l) :
              /\ trace[i].call \in CallIds
              /\ calls[trace[i].call].log = l
              /\ calls[trace[i].call].op \in {"emit_event", "begin_interval"}

\* a logger was constructed with new and with_category and is not yet used
C10_Witness ==
    \E l \in Loggers :
        /\ loggers[l].exists
        /\ Len(built[l]) = 2
        /\ firstUse[l] = 0

\* the guard that begin_interval call b returned, while it is not dropped
GuardsOf(b) == {g \in guards : g.gid = b}

\* C11: every begin_interval(id, name) call that has returned, whether its
\* enablement check answered true or false, has returned one guard: the guard
\* exists or is being dropped, it refers to the logger of the call and holds the
\* id and name passed in, and the drop of the guard runs on that logger and
\* emits its interval-end marker with that id and name.
C11_GuardAlwaysReturned ==
    \A b \in BeginCalls :
        /\ calls[b].pc = "done" =>
              /\ IsSome(calls[b].en)
              /\ Cardinality(GuardsOf(b)) + Cardinality(DropsOf(b)) = 1
        /\ \A g \in GuardsOf(b) :
              g.log = calls[b].log /\ g.id = calls[b].id /\ g.name = calls[b].name
        /\ \A d \in DropsOf(b) :
              /\ calls[d].log = calls[b].log
              /\ calls[d].id = calls[b].id /\ calls[d].name = calls[b].name
              /\ \A i \in AllEmitsOf(d) :
                    /\ trace[i].type = SIGNPOST_TYPE_INTERVAL_END
                    /\ trace[i].log = calls[b].log
                    /\ SamePair(i, b)

\* a begin_interval call whose check answered false returned a guard, and the
\* drop of that guard emitted the interval-end marker with the call's id and name
C11_Witness ==
    \E b \in BeginCalls : \E d \in DropsOf(b) :
        /\ calls[b].en = Some(FALSE)
        /\ BeginsOf(b) = {}
        /\ \E i \in AllEmitsOf(d) : trace[i].id = calls[b].id /\ trace[i].name = calls[b].name

\* the native calls made in the step that is being taken
NewCalls == SubSeq(trace', Len(trace) + 1, Len(trace'))

\* C12: a guard holds a logger, an id and a name and nothing else; the step in
\* which the drop of a guard makes its enablement check asks the native
\* facility then, so the answer is the state of the tracing session at drop
\* time; the drop emits one interval-end marker with the id and name of the
\* guard when the answer is true and nothing when it is false, whatever the
\* check of the begin_interval call answered.
C12_DropRechecks ==
    [][ /\ \A g \in guards : DOMAIN g = {"gid", "log", "id", "name"}
        /\ \A d \in 1..MaxCalls :
              (At(d, "signpost") /\ calls[d].op = "drop" /\ calls'[d].pc = "done") =>
                  /\ Len(NewCalls) = (IF tracing THEN 2 ELSE 1)
                  /\ NewCalls[1].ev = "enabled"
                  /\ NewCalls[1].call = d
                  /\ NewCalls[1].result = tracing
                  /\ calls'[d].en = Some(tracing)
                  /\ tracing =>
                        /\ NewCalls[2].ev = "emit"
                        /\ NewCalls[2].call = d
                        /\ NewCalls[2].type = SIGNPOST_TYPE_INTERVAL_END
                        /\ NewCalls[2].id = calls[calls[d].guard].id
                        /\ NewCalls[2].name = calls[calls[d].guard].name
      ]_vars

\* a guard whose begin_interval emitted the interval-begin marker was dropped
\* while tracing was off, and no interval-end marker was emitted
C12_Witness ==
    \E d \in DoneDrops :
        /\ calls[d].en = Some(FALSE)
        /\ calls[calls[d].guard].en = Some(TRUE)
        /\ BeginsOf(calls[d].guard) # {}
        /\ EndsOf(calls[d].guard) = {}

\* C13: an emit_event(id, name) call whose enablement check answered true has
\* returned having made exactly one native emission, of type event, with the
\* id and the name of the call unchanged; so for the ids zero and u64::MAX as
\* for any other.
C13_EventCarriesIdAndName ==
    \A c \in CallIds :
        (calls[c].op = "emit_event" /\ calls[c].en = Some(TRUE)) =>
            /\ calls[c].pc = "done"
            /\ Cardinality(AllEmitsOf(c)) = 1
            /\ \A i \in AllEmitsOf(c) :
                  /\ trace[i].type = SIGNPOST_TYPE_EVENT
                  /\ trace[i].id = calls[c].id
                  /\ trace[i].name = calls[c].name

\* one event was emitted with id zero and one with id u64::MAX
C13_Witness ==
    \E i, j \in TraceIdx :
        /\ trace[i].ev = "emit" /\ trace[i].type = SIGNPOST_TYPE_EVENT
        /\ trace[j].ev = "emit" /\ trace[j].type = SIGNPOST_TYPE_EVENT
        /\ trace[i].id = U64(0)
        /\ trace[j].id = U64_MAX
        /\ calls[trace[i].call].id = U64(0)
        /\ calls[trace[j].call].id = U64_MAX

\* C14 as stated: an emit_event call whose enablement check answered false has
\* created no scratch buffer.
C14_Original ==
    \A c \in CallIds :
        (calls[c].op = "emit_event" /\ calls[c].en = Some(FALSE)) => calls[c].buf = 0

\* the calls of drop
DropCalls == {d \in CallIds : calls[d].op = "drop"}

\* C15: while a guard exists or is being dropped, the Once of its logger is
\* complete and the handle stored, by a get that ended before begin_interval
\* returned the guard; so the get of a drop never enters the closure of
\* call_once and never waits for it, no os_log_create call is made by a drop,
\* and the handle a drop reads is the one its begin_interval call read.
C15_DropNeverCreates ==
    /\ \A g \in guards :
          /\ loggers[g.log].init = "COMPLETE"
          /\ loggers[g.log].stores = 1
          /\ calls[g.gid].log = g.log /\ IsSome(calls[g.gid].handle)
    /\ \A d \in DropCalls :
          /\ loggers[calls[d].log].init = "COMPLETE"
          /\ calls[d].pc \notin {"create", "store", "complete"}
          /\ calls[d].created = None
          /\ calls[d].pc = "call_once" => (ENABLED CallOnceSkip(d) /\ ~ENABLED CallOnceRun(d))
          /\ IsSome(calls[d].handle) => calls[d].handle = calls[calls[d].guard].handle
    /\ \A i \in TraceIdx :
          trace[i].ev = "create" => calls[trace[i].call].op # "drop"

\* a drop has read its handle, the one created by its begin_interval call
C15_Witness ==
    \E d \in DropCalls :
        /\ IsSome(calls[d].handle)
        /\ \E i \in CreatesOf(calls[d].log) :
              trace[i].call = calls[d].guard /\ Some(trace[i].handle) = calls[d].handle

\* the loggers to which with_category was applied after their first use; the
\* first use has ended by then, so the handle was resolved
Recategorized == {l \in Loggers : firstUse[l] # 0 /\ Len(built[l]) > firstUse[l]}

\* C16: a logger to which with_category was applied after its handle was
\* resolved has the new category, its Once still complete and its handle still
\* the one created at first use: os_log_create was called exactly once for it,
\* with the category it had at first use, and every call on it, before or
\* after with_category, reads that handle and makes its checks and emissions
\* with it.
C16_HandleKeptAcrossWithCategory ==
    \A l \in Recategorized :
        /\ loggers[l].category = built[l][Len(built[l])].category
        /\ loggers[l].init = "COMPLETE"
        /\ Cardinality(CreatesOf(l)) = 1
        /\ \A i \in CreatesOf(l) :
              /\ trace[i].subsystem = built[l][1].subsystem
              /\ trace[i].category = built[l][firstUse[l]].category
              /\ loggers[l].handle = trace[i].handle
              /\ \A c \in Resolved(l) : Get(calls[c].handle) = trace[i].handle
              /\ \A j \in TraceIdx :
                    (trace[j].log = l /\ trace[j].ev \in {"enabled", "emit"}) =>
                        trace[j].handle = trace[i].handle

\* a call started after with_category changed the category of a resolved
\* logger has read the handle created with the first category
C16_Witness ==
    \E l \in Recategorized : \E c \in CallIds :
        /\ calls[c].log = l /\ Running(c)
        /\ calls[c].handle = Some(MaxHandle)
        /\ loggers[l].category # built[l][firstUse[l]].category
        /\ \E i \in CreatesOf(l) : trace[i].category = built[l][firstUse[l]].category

\* C17: under fair scheduling every emit_event, begin_interval and drop call
\* that was started returns; and at no time are all the calls in flight
\* waiting: while a call is in flight, some call in flight can take a step.
C17_EveryCallReturns ==
    /\ \A c \in 1..MaxCalls :
          (c \in CallIds) ~> (c \in CallIds /\ calls[c].pc = "done")
    /\ []((\E c \in CallIds : Running(c)) =>
             (\E c \in CallIds : Running(c) /\ ENABLED Step(c)))

\* two calls on one logger have returned, and the one that started first was
\* at call_once while the other ran the creation
C17_Witness ==
    \E c1, c2 \in CallIds :
        /\ c1 < c2
        /\ calls[c1].log = calls[c2].log
        /\ calls[c1].pc = "done" /\ calls[c2].pc = "done"
        /\ \E i \in CreatesOf(calls[c1].log) : trace[i].call = c2

\* C18: every native emission comes right after an enablement check that the
\* same call made with the same handle and that answered true; the handle is
\* the one created for and stored in the logger the call is on; a call that
\* has returned made exactly one check, and one emission if the check answered
\* true and none otherwise; a call that has not returned has made neither.
C18_EmissionOnlyAfterTrueCheck ==
    /\ \A i \in TraceIdx :
          trace[i].ev = "emit" =>
              /\ i > 1
              /\ trace[i - 1].ev = "enabled"
              /\ trace[i - 1].call = trace[i].call
              /\ trace[i - 1].handle = trace[i].handle
              /\ trace[i - 1].result
              /\ trace[i].log = calls[trace[i].call].log
              /\ trace[i].handle = loggers[trace[i].log].handle
              /\ \E j \in CreatesOf(trace[i].log) :
                    j < i /\ trace[j].handle = trace[i].handle
    /\ \A c \in CallIds :
          IF calls[c].pc = "done"
          THEN /\ Cardinality(ChecksOf(c)) = 1
               /\ \A i \in ChecksOf(c) :
                     /\ trace[i].handle = loggers[calls[c].log].handle
                     /\ Cardinality(AllEmitsOf(c)) = (IF trace[i].result THEN 1 ELSE 0)
          ELSE ChecksOf(c) = {} /\ AllEmitsOf(c) = {}

\* calls on two loggers whose handles differ have each emitted with the handle
\* of their own logger
C18_Witness ==
    \E i, j \in TraceIdx :
        /\ trace[i].ev = "emit" /\ trace[j].ev = "emit"
        /\ trace[i].log # trace[j].log
        /\ trace[i].handle # trace[j].handle
        /\ trace[i].handle = loggers[trace[i].log].handle
        /\ trace[j].handle = loggers[trace[j].log].handle

\* all the os_log_create calls made
AllCreates == {i \in TraceIdx : trace[i].ev = "create"}
\* the loggers on which some call has its handle
UsedLoggers == {l \in Loggers : Resolved(l) # {}}

\* C19: with loggers of one subsystem and category, a logger on which no call
\* was started has its handle unset and its Once untouched whatever was done
\* on the others; each os_log_create call is made by a call on the logger it
\* is for, and its result is the handle of that logger and of no other call's
\* logger; each logger on which a call has its handle has exactly one
\* os_log_create call, so k such loggers have k in total, although the
\* arguments of all of them are the same.
C19_CreationPerInstance ==
    /\ \A l \in Loggers :
          /\ firstUse[l] = 0 =>
                /\ loggers[l] = OsLogNew(loggers[l].subsystem, loggers[l].category)
                /\ CreatesOf(l) = {}
          /\ \A i \in CreatesOf(l) : calls[trace[i].call].log = l
          /\ loggers[l].stores = 1 =>
                \E i \in CreatesOf(l) : loggers[l].handle = trace[i].handle
          /\ \A c \in Resolved(l) :
                \E i \in CreatesOf(l) : calls[c].handle = Some(trace[i].handle)
    /\ \A l \in UsedLoggers : Cardinality(CreatesOf(l)) = 1
    /\ Cardinality(AllCreates) >= Cardinality(UsedLoggers)
    /\ Cardinality(AllCreates) <= Cardinality({l \in Loggers : firstUse[l] # 0})
    /\ UsedLoggers = Loggers => Cardinality(AllCreates) = NLoggers

\* every logger was used; they have one subsystem and category, one
\* os_log_create call each, and two of them different handles
C19_Witness ==
    /\ UsedLoggers = Loggers
    /\ \A i, j \in AllCreates :
          trace[i].subsystem = trace[j].subsystem /\ trace[i].category = trace[j].category
    /\ \E i, j \in AllCreates :
          trace[i].log # trace[j].log /\ trace[i].handle # trace[j].handle
    /\ \A l \in Loggers : \A c \in Resolved(l) : calls[c].handle = Some(loggers[l].handle)

\* the loggers for which os_log_create answered 0, the value of an unset handle
CreatedUnset == {l \in Loggers : \E i \in CreatesOf(l) : trace[i].handle = UNSET_HANDLE}

\* C20: for a logger whose os_log_create call answered 0, that call is the
\* only one: once the answer is stored the Once is or becomes complete with the
\* handle at 0, a later call at call_once goes on without running the closure,
\* and every call that has its handle has 0.
C20_GateNotHandleDecides ==
    \A l \in CreatedUnset :
        /\ Cardinality(CreatesOf(l)) = 1
        /\ loggers[l].handle = UNSET_HANDLE
        /\ loggers[l].init \in {"RUNNING", "COMPLETE"}
        /\ \A c \in CallIds :
              calls[c].log = l =>
                  /\ calls[c].pc = "call_once" => ~ENABLED CallOnceRun(c)
                  /\ (calls[c].pc = "call_once" /\ loggers[l].init = "COMPLETE") =>
                        ENABLED CallOnceSkip(c)
                  /\ IsSome(calls[c].handle) => calls[c].handle = Some(UNSET_HANDLE)

\* os_log_create answered 0 for the logger of a guard, and the drop of the
\* guard, started after begin_interval returned, has read 0 with no second
\* os_log_create call
C20_Witness ==
    \E d \in DropCalls :
        /\ calls[d].log \in CreatedUnset
        /\ calls[d].handle = Some(UNSET_HANDLE)
        /\ loggers[calls[d].log].init = "COMPLETE"
        /\ Cardinality(CreatesOf(calls[d].log)) = 1

Init ==
    /\ loggers = [l \in Loggers |-> NoLogger]
    /\ built = [l \in Loggers |-> <<>>]
    /\ firstUse = [l \in Loggers |-> 0]
    /\ tracing \in BOOLEAN
    /\ calls = <<>>
    /\ guards = {}
    /\ trace = <<>>
    /\ mpc = "off" /\ mMacro = "" /\ mLit = <<>> /\ mOut = None

\* the drops of the guards and the steps of the calls in flight
Steps ==
    \/ \E b \in 1..MaxCalls : \E g \in guards : g.gid = b /\ StartDrop(g)
    \/ \E c \in 1..MaxCalls : CallOnceRun(c)
    \/ \E c \in 1..MaxCalls : CallOnceSkip(c)
    \/ \E c \in 1..MaxCalls : OsLogCreate(c)
    \/ \E c \in 1..MaxCalls : StoreHandle(c)
    \/ \E c \in 1..MaxCalls : OnceComplete(c)
    \/ \E c \in 1..MaxCalls : LoadHandle(c)
    \/ \E c \in 1..MaxCalls : Signpost(c)

\* the calls made on the loggers Ls with the (id, name) pairs As
Use(Ls, As) ==
    \/ \E op \in {"emit_event", "begin_interval"}, l \in Ls, a \in As :
          StartCall(op, l, a.id, a.name)
    \/ Steps

\* The whole program: any construction, any call, any tracing session.
Next ==
    \/ \E l \in Loggers, s \in Subsystems, c \in Categories : New(l, s, c)
    \/ \E l \in Loggers, c \in Categories : WithCategory(l, c)
    \/ Use(Loggers, Args)
    \/ Toggle
Spec == Init /\ [][Next]_vars

\* The loggers Ls constructed as the tests construct theirs,
\* static LOGGER: OsLog = const_poi_logger!("mhallin.github.io")
TestSubsystem == "mhallin.github.io"
TestArgs == {[id |-> U64(10), name |-> "Event"]}
InitStatic(Ls) ==
    /\ loggers = [l \in Loggers |->
          IF l \in Ls THEN OsLogNew(TestSubsystem, CATEGORY_POINTS_OF_INTEREST)
          ELSE NoLogger]
    /\ built = [l \in Loggers |->
          IF l \in Ls THEN <<Built("new", TestSubsystem, CATEGORY_POINTS_OF_INTEREST)>>
          ELSE <<>>]
    /\ firstUse = [l \in Loggers |-> 0]
    /\ tracing \in BOOLEAN
    /\ calls = <<>>
    /\ guards = {}
    /\ trace = <<>>
    /\ mpc = "off" /\ mMacro = "" /\ mLit = <<>> /\ mOut = None

\* Concurrent use of static loggers under a tracing session that is on or
\* off for the whole run. The loggers are alike, so they are numbered in the
\* order of their first use.
InOrderOfUse(l) == \A k \in Loggers : k < l => firstUse[k] # 0
NextGate ==
    \/ \E op \in {"emit_event", "begin_interval"}, l \in Loggers, a \in TestArgs :
          InOrderOfUse(l) /\ StartCall(op, l, a.id, a.name)
    \/ Steps
SpecGate == InitStatic(Loggers) /\ [][NextGate]_vars

\* Events and intervals on one static logger while the tracing session
\* starts and stops.
NextInterval ==
    \/ Use({1}, Args)
    \/ Toggle
SpecInterval == InitStatic({1}) /\ [][NextInterval]_vars

\* Construction of one logger with new and with_category, and its use.
NextBuilder ==
    \/ \E s \in Subsystems, c \in Categories : New(1, s, c)
    \/ \E c \in Categories : WithCategory(1, c)
    \/ Use({1}, TestArgs)
SpecBuilder == Init /\ [][NextBuilder]_vars

\* Events and intervals on one static logger with the reserved ids, under a
\* tracing session that is on or off for the whole run.
NextEvent == Use({1}, SentinelArgs)
SpecEvent == InitStatic({1}) /\ [][NextEvent]_vars

\* The same under fair scheduling: the thread of a call in flight takes its
\* next step when it stays able to, and each native call returns.
SpecEventFair == SpecEvent /\ \A c \in 1..MaxCalls : WF_vars(Step(c))

\* One macro invocation on one literal.
InitMacro ==
    /\ loggers = [l \in Loggers |-> NoLogger]
    /\ built = [l \in Loggers |-> <<>>]
    /\ firstUse = [l \in Loggers |-> 0]
    /\ tracing = FALSE
    /\ calls = <<>>
    /\ guards = {}
    /\ trace = <<>>
    /\ mpc = "input" /\ mMacro \in Macros /\ mLit \in Literals /\ mOut = None
NextMacro ==
    \/ ConstPoiLoggerMacro
    \/ EmitEventMacro
    \/ BeginIntervalMacro
SpecMacro == InitMacro /\ [][NextMacro]_vars
====
